---- MODULE Spec2Model ----
(***************************************************************************)
(* Model of the query cost estimator of src/app.py.                        *)
(*                                                                         *)
(* The estimator receives the Document that graphql.parse returns for the  *)
(* query text (the parser is a library outside this repository), walks the *)
(* selection tree of every definition with visit_node, collecting one      *)
(* (path, limit) entry per leaf selection in all_fields, and calculate_cost*)
(* sums the entries.  The model keeps the shape of the AST the walker      *)
(* reads: a node's name, its ordered argument list (name and value node),  *)
(* and its selection set (the empty sequence stands for None).             *)
(***************************************************************************)
EXTENDS Integers, Sequences, FiniteSets, TLC

VARIABLES document, pc, result, all_fields, calls, earlier

vars == <<document, pc, result, all_fields, calls, earlier>>

(***************************************************************************)
(* Bounds of the checked input space.                                      *)
(***************************************************************************)
MaxNodes == 3
MaxDefs == 2
MaxCalls == 2
SessionMaxNodes == 2

(***************************************************************************)
(* Value nodes of the AST.  The text of a literal is the sequence of the   *)
(* code points of its characters.  IntValue, FloatValue, StringValue and   *)
(* EnumValue nodes have a string attribute `value`, BooleanValue nodes a   *)
(* bool attribute `value`, and NullValue nodes have no such attribute.     *)
(***************************************************************************)
IntValue(text) == [kind |-> "IntValue", value |-> text]
FloatValue(text) == [kind |-> "FloatValue", value |-> text]
StringValue(text) == [kind |-> "StringValue", value |-> text]
EnumValue(text) == [kind |-> "EnumValue", value |-> text]
BooleanValue(b) == [kind |-> "BooleanValue", value |-> b]
NullValue == [kind |-> "NullValue"]

Argument(name, value) == [name |-> name, value |-> value]

(* The code point of a character, ord(c), for the characters of the inputs. *)
Ord(c) ==
    CASE c = "0" -> 48 [] c = "1" -> 49 [] c = "2" -> 50 [] c = "3" -> 51
      [] c = "4" -> 52 [] c = "5" -> 53 [] c = "6" -> 54 [] c = "7" -> 55
      [] c = "8" -> 56 [] c = "9" -> 57 [] c = " " -> 32 [] c = "+" -> 43
      [] c = "-" -> 45 [] c = "." -> 46 [] c = "_" -> 95 [] c = "x" -> 120
      [] c = "F" -> 70 [] c = "O" -> 79

(* The text of a string written with the characters above. *)
Text(chars) == [i \in 1..Len(chars) |-> Ord(chars[i])]

NoError == "none"

(* The characters C's isspace accepts: tab, LF, VT, FF, CR and space. *)
AsciiSpaces == {9, 10, 11, 12, 13, 32}

(* The characters from 127 on for which str.isspace holds. *)
UnicodeSpaces ==
    {133, 160, 5760} \cup (8192..8202) \cup {8232, 8233, 8239, 8287, 12288}

(***************************************************************************)
(* The code points of the digit zero of every script with decimal digits   *)
(* (Unicode 14.0, category Nd); the digits 1 to 9 of a script follow its   *)
(* zero.                                                                   *)
(***************************************************************************)
DecimalZeros ==
    {48, 1632, 1776, 1984, 2406, 2534, 2662, 2790, 2918, 3046, 3174, 3302,
     3430, 3558, 3664, 3792, 3872, 4160, 4240, 6112, 6160, 6470, 6608, 6784,
     6800, 6992, 7088, 7232, 7248, 42528, 43216, 43264, 43472, 43504, 43600,
     44016, 65296, 66720, 68912, 69734, 69872, 69942, 70096, 70384, 70736,
     70864, 71248, 71360, 71472, 71904, 72016, 72784, 73040, 73120, 92768,
     92864, 93008, 120782, 120792, 120802, 120812, 120822, 123200, 123632,
     125264, 130032}

(* The character is a decimal digit of some script. *)
Digits(c) == \E z \in DecimalZeros : c \in z..(z + 9)

(* The value of a decimal digit of any script. *)
DigitValue(c) == c - (CHOOSE z \in DecimalZeros : c \in z..(z + 9))

(***************************************************************************)
(* What int() makes of a character before it parses the text: characters   *)
(* below 127 are kept, other spaces become a space, other decimal digits   *)
(* the ASCII digit of the same value, anything else "?".                   *)
(***************************************************************************)
ToASCII(c) ==
    IF c < 127 THEN c
    ELSE IF c \in UnicodeSpaces THEN 32
    ELSE IF Digits(c) THEN 48 + DigitValue(c)
    ELSE 63

RECURSIVE SkipSpaces(_)
(* The text without its leading spaces. *)
SkipSpaces(text) ==
    IF text # <<>> /\ Head(text) \in AsciiSpaces THEN SkipSpaces(Tail(text)) ELSE text

RECURSIVE DropSpaces(_)
(* The text without its trailing spaces. *)
DropSpaces(text) ==
    IF text # <<>> /\ text[Len(text)] \in AsciiSpaces
    THEN DropSpaces(SubSeq(text, 1, Len(text) - 1))
    ELSE text

IsDigit(c) == c \in 48..57

RECURSIVE DecimalValue(_, _)
(* The number a run of ASCII digits and underscores denotes. *)
DecimalValue(text, acc) ==
    IF text = <<>> THEN acc
    ELSE IF IsDigit(Head(text))
         THEN DecimalValue(Tail(text), 10 * acc + (Head(text) - 48))
         ELSE DecimalValue(Tail(text), acc)

(* The text with every character as int() reads it. *)
ToASCIIText(text) ==
    SubSeq([i \in 1..Len(text) |-> ToASCII(text[i])], 1, Len(text))

(* The text after its sign, if it has one. *)
Unsigned(text) ==
    IF text # <<>> /\ text[1] \in {43, 45} THEN Tail(text) ELSE text

(* Digits with single underscores between them, and nothing else. *)
WellFormed(body) ==
    /\ body # <<>>
    /\ IsDigit(body[1])
    /\ IsDigit(body[Len(body)])
    /\ \A i \in 1..Len(body) : IsDigit(body[i]) \/ body[i] = 95
    /\ \A i \in 1..(Len(body) - 1) : ~(body[i] = 95 /\ body[i + 1] = 95)

(* The number of digits of the text. *)
DigitCount(body) == Cardinality({ i \in 1..Len(body) : IsDigit(body[i]) })

(* int() of a text without spaces around it. *)
ParseInt(text) ==
    IF WellFormed(Unsigned(text)) /\ DigitCount(Unsigned(text)) <= 4300
    THEN [raised |-> NoError,
          val |-> IF text[1] = 45
                  THEN 0 - DecimalValue(Unsigned(text), 0)
                  ELSE DecimalValue(Unsigned(text), 0)]
    ELSE [raised |-> "ValueError", val |-> 0]

(***************************************************************************)
(* int(argument.value.value), line 15.  Reading `.value` of a value node   *)
(* that has none raises AttributeError; int() of a bool is 0 or 1; int()   *)
(* of a string skips the spaces around the text, accepts one sign and then *)
(* decimal digits of any script with single underscores between digits,    *)
(* and raises ValueError on any other text and on more than 4300 digits.   *)
(* Python's integers are unbounded: the values of the texts evaluated here *)
(* stay below 2^31.                                                        *)
(***************************************************************************)
int(node) ==
    IF "value" \notin DOMAIN node
    THEN [raised |-> "AttributeError", val |-> 0]
    ELSE IF node.kind = "BooleanValue"
    THEN [raised |-> NoError, val |-> IF node.value THEN 1 ELSE 0]
    ELSE ParseInt(DropSpaces(SkipSpaces(ToASCIIText(node.value))))

RECURSIVE join(_, _)
(* sep.join(names), line 22. *)
join(sep, names) ==
    IF names = <<>> THEN ""
    ELSE IF Len(names) = 1 THEN names[1]
    ELSE names[1] \o sep \o join(sep, Tail(names))

(* hasattr(node, "selection_set") and node.selection_set, lines 16, 19, 25. *)
has_selection_set(node) ==
    "selection_set" \in DOMAIN node /\ node.selection_set # <<>>

RECURSIVE read_arguments_product(_, _, _, _)
(* Variant of read_arguments: each limit argument multiplies the running value. *)
read_arguments_product(arguments, i, current_limit, child_limit) ==
    IF i > Len(arguments)
    THEN [raised |-> NoError, child_limit |-> child_limit]
    ELSE LET argument == arguments[i]
         IN IF argument.name = "limit"
            THEN LET n == int(argument.value)
                 IN IF n.raised # NoError
                    THEN [raised |-> n.raised, child_limit |-> child_limit]
                    ELSE read_arguments_product(arguments, i + 1, current_limit,
                                                n.val * child_limit)
            ELSE read_arguments_product(arguments, i + 1, current_limit, child_limit)

RECURSIVE read_arguments(_, _, _, _)
(***************************************************************************)
(* The loop of lines 13-15 from argument i on: every argument named        *)
(* "limit" overwrites child_limit with int(value) * current_limit; an      *)
(* exception of int() ends the loop.                                       *)
(***************************************************************************)
read_arguments(arguments, i, current_limit, child_limit) ==
    IF i > Len(arguments)
    THEN [raised |-> NoError, child_limit |-> child_limit]
    ELSE LET argument == arguments[i]
         IN IF argument.name = "limit"
            THEN LET n == int(argument.value)
                 IN IF n.raised # NoError
                    THEN [raised |-> n.raised, child_limit |-> child_limit]
                    ELSE read_arguments(arguments, i + 1, current_limit,
                                        n.val * current_limit)
            ELSE read_arguments(arguments, i + 1, current_limit, child_limit)

(* child_limit after lines 11-15 of visit_node. *)
child_limit_of(node, current_limit) ==
    IF node.kind = "Field"
    THEN read_arguments(node.arguments, 1, current_limit, current_limit)
    ELSE [raised |-> NoError, child_limit |-> current_limit]

RECURSIVE visit_node(_, _, _, _)
RECURSIVE visit_selections(_, _, _, _, _)
(***************************************************************************)
(* visit_node, lines 9-22, with the accumulator all_fields passed in and   *)
(* returned: the result is the exception raised (or NoError) and the       *)
(* content of all_fields when the call ends.                               *)
(***************************************************************************)
visit_node(node, path, current_limit, acc) ==
    LET c == child_limit_of(node, current_limit)
    IN IF c.raised # NoError
       THEN [raised |-> c.raised, all_fields |-> acc]
       ELSE IF has_selection_set(node)
            THEN visit_selections(node.selection_set, 1, path, c.child_limit, acc)
            ELSE [raised |-> NoError, all_fields |-> acc]

(* Variant of visit_selections: the recursive call omits the multiplier. *)
visit_selections_default_limit(selections, i, path, child_limit, acc) ==
    IF i > Len(selections)
    THEN [raised |-> NoError, all_fields |-> acc]
    ELSE LET selection == selections[i]
             new_path == Append(path, selection.name)
             r == IF has_selection_set(selection)
                  THEN visit_node(selection, new_path, 1, acc)
                  ELSE [raised |-> NoError,
                        all_fields |-> Append(acc, <<join(".", new_path), child_limit>>)]
         IN IF r.raised # NoError
            THEN r
            ELSE visit_selections(selections, i + 1, path, child_limit, r.all_fields)

(* Variant of visit_selections: a leaf's entry is put in front of the list. *)
visit_selections_prepend(selections, i, path, child_limit, acc) ==
    IF i > Len(selections)
    THEN [raised |-> NoError, all_fields |-> acc]
    ELSE LET selection == selections[i]
             new_path == Append(path, selection.name)
             r == IF has_selection_set(selection)
                  THEN visit_node(selection, new_path, child_limit, acc)
                  ELSE [raised |-> NoError,
                        all_fields |-> <<<<join(".", new_path), child_limit>>>> \o acc]
         IN IF r.raised # NoError
            THEN r
            ELSE visit_selections(selections, i + 1, path, child_limit, r.all_fields)

(* The loop of lines 17-22 from selection i on. *)
visit_selections(selections, i, path, child_limit, acc) ==
    IF i > Len(selections)
    THEN [raised |-> NoError, all_fields |-> acc]
    ELSE LET selection == selections[i]
             new_path == Append(path, selection.name)
             r == IF has_selection_set(selection)
                  THEN visit_node(selection, new_path, child_limit, acc)
                  ELSE [raised |-> NoError,
                        all_fields |-> Append(acc, <<join(".", new_path), child_limit>>)]
         IN IF r.raised # NoError
            THEN r
            ELSE visit_selections(selections, i + 1, path, child_limit, r.all_fields)

(* Variant of visit_node_defaults: the multiplier starts at 0. *)
visit_node_defaults_zero == [path |-> <<>>, current_limit |-> 0]

(* The default arguments of visit_node, line 9. *)
visit_node_defaults == [path |-> <<>>, current_limit |-> 1]

(* Variant of new_all_fields: the list of the previous call is used again. *)
kept_all_fields == all_fields

(* The fresh accumulator of line 7. *)
new_all_fields == <<>>

RECURSIVE visit_definitions_carry(_, _, _)
(* Variant of visit_definitions: a definition starts from the last limit recorded. *)
visit_definitions_carry(definitions, i, acc) ==
    IF i > Len(definitions)
    THEN [raised |-> NoError, all_fields |-> acc]
    ELSE LET definition == definitions[i]
             r == IF has_selection_set(definition)
                  THEN visit_node(definition, visit_node_defaults.path,
                                  IF acc = <<>> THEN visit_node_defaults.current_limit
                                  ELSE acc[Len(acc)][2],
                                  acc)
                  ELSE [raised |-> NoError, all_fields |-> acc]
         IN IF r.raised # NoError
            THEN r
            ELSE visit_definitions_carry(definitions, i + 1, r.all_fields)

RECURSIVE visit_definitions(_, _, _)
(* The loop of lines 24-26 from definition i on. *)
visit_definitions(definitions, i, acc) ==
    IF i > Len(definitions)
    THEN [raised |-> NoError, all_fields |-> acc]
    ELSE LET definition == definitions[i]
             r == IF has_selection_set(definition)
                  THEN visit_node(definition, visit_node_defaults.path,
                                  visit_node_defaults.current_limit, acc)
                  ELSE [raised |-> NoError, all_fields |-> acc]
         IN IF r.raised # NoError
            THEN r
            ELSE visit_definitions(definitions, i + 1, r.all_fields)

(* extract_fields_and_limit, lines 5-28, on the parsed document. *)
extract_fields_and_limit(doc) ==
    visit_definitions(doc, 1, new_all_fields)

RECURSIVE sum_limits(_, _)
(* The loop of lines 34-35. *)
sum_limits(fields_with_limits, total_data_points) ==
    IF fields_with_limits = <<>> THEN total_data_points
    ELSE sum_limits(Tail(fields_with_limits),
                    total_data_points + Head(fields_with_limits)[2])

(* Variant of cost_report: the number of entries is not added. *)
cost_report_without_count(fields_with_limits) ==
    [total_cost |-> sum_limits(fields_with_limits, 0),
     fields |-> [i \in 1..Len(fields_with_limits) |-> fields_with_limits[i][1]],
     fields_with_limits |-> fields_with_limits]

(* The tuple calculate_cost returns, lines 32-40, for a collected list. *)
cost_report(fields_with_limits) ==
    [total_cost |-> sum_limits(fields_with_limits, 0) + Len(fields_with_limits),
     fields |-> [i \in 1..Len(fields_with_limits) |-> fields_with_limits[i][1]],
     fields_with_limits |-> fields_with_limits]

(***************************************************************************)
(* calculate_cost, lines 30-40: the exception that leaves the call (or     *)
(* NoError), what the call returns (nothing when an exception leaves it)   *)
(* and the content of all_fields when the call ends.                       *)
(***************************************************************************)
calculate_cost(doc) ==
    LET e == extract_fields_and_limit(doc)
    IN IF e.raised # NoError
       THEN [raised |-> e.raised, returned |-> <<>>, all_fields |-> e.all_fields]
       ELSE [raised |-> NoError, returned |-> <<cost_report(e.all_fields)>>,
             all_fields |-> e.all_fields]

(***************************************************************************)
(* The documents the model draws its inputs from.  A field head is a name  *)
(* and an argument list.  The plain heads carry no limit or a positive     *)
(* integer limit; the special heads carry the other argument lists.  A     *)
(* document has any number of plain fields in operation definitions and at *)
(* most one special element: a field with a special head, or a type system *)
(* definition.                                                             *)
(***************************************************************************)
Limit(value) == <<Argument("limit", value)>>

PlainHeads ==
    { [name |-> "a", arguments |-> <<>>],
      [name |-> "a", arguments |-> Limit(IntValue(Text(<<"2">>)))],
      [name |-> "b", arguments |-> Limit(IntValue(Text(<<"3">>)))] }

(* The text of an Int literal of 4301 digits 9. *)
LongLiteral == SubSeq([i \in 1..4301 |-> 57], 1, 4301)

SpecialArgumentLists ==
    { Limit(IntValue(Text(<<"0">>))),
      Limit(IntValue(LongLiteral)),
      Limit(IntValue(Text(<<"-", "3">>))),
      Limit(StringValue(Text(<<"5">>))),
      Limit(StringValue(Text(<<"x">>))),
      Limit(FloatValue(Text(<<"1", ".", "5">>))),
      Limit(EnumValue(Text(<<"F", "O", "O">>))),
      Limit(StringValue(Text(<<" ", "5", " ">>))),
      Limit(StringValue(Text(<<"1", "_", "0">>))),
      Limit(StringValue(<<1635>>)),
      Limit(BooleanValue(TRUE)),
      Limit(NullValue),
      Limit(IntValue(Text(<<"2">>))) \o Limit(IntValue(Text(<<"3">>))),
      <<Argument("first", IntValue(Text(<<"7">>)))>> }

SpecialHeads == { [name |-> "b", arguments |-> args] : args \in SpecialArgumentLists }

SessionHeads ==
    { [name |-> "a", arguments |-> <<>>],
      [name |-> "a", arguments |-> Limit(IntValue(Text(<<"2">>)))],
      [name |-> "b", arguments |-> Limit(StringValue(Text(<<"x">>)))] }

FieldNode(head, selections) ==
    [kind |-> "Field", name |-> head.name, arguments |-> head.arguments,
     selection_set |-> selections]

RECURSIVE SelectionLists(_, _, _, _)
(***************************************************************************)
(* The selection lists of exactly n field nodes, with heads from plain     *)
(* and, when special is TRUE, exactly one head from specials.              *)
(***************************************************************************)
SelectionLists(plain, specials, n, special) ==
    IF n = 0 THEN (IF special THEN {} ELSE { <<>> })
    ELSE UNION {
           LET subs == SelectionLists(plain, specials, k - 1, FALSE)
               rests == SelectionLists(plain, specials, n - k, FALSE)
           IN IF special
              THEN LET subs1 == SelectionLists(plain, specials, k - 1, TRUE)
                       rests1 == SelectionLists(plain, specials, n - k, TRUE)
                   IN { <<FieldNode(h, sub)>> \o rest :
                          h \in specials, sub \in subs, rest \in rests }
                      \cup { <<FieldNode(h, sub)>> \o rest :
                               h \in plain, sub \in subs1, rest \in rests }
                      \cup { <<FieldNode(h, sub)>> \o rest :
                               h \in plain, sub \in subs, rest \in rests1 }
              ELSE { <<FieldNode(h, sub)>> \o rest :
                       h \in plain, sub \in subs, rest \in rests }
           : k \in 1..n }

OperationDefinition(selections) ==
    [kind |-> "OperationDefinition", selection_set |-> selections]

(* A type system definition such as `scalar Date`: no selection_set attribute. *)
ScalarTypeDefinition == [kind |-> "ScalarTypeDefinition"]

RECURSIVE DocumentsOf(_, _, _, _, _)
(***************************************************************************)
(* The definition lists of at most m definitions with exactly n field      *)
(* nodes and, when special is TRUE, exactly one special element.           *)
(***************************************************************************)
DocumentsOf(plain, specials, m, n, special) ==
    IF m = 0 THEN (IF n = 0 /\ ~special THEN { <<>> } ELSE {})
    ELSE UNION (
           { IF n = 0 /\ ~special THEN { <<>> } ELSE {} }
           \cup { IF special
                  THEN { <<ScalarTypeDefinition>> \o rest :
                           rest \in DocumentsOf(plain, specials, m - 1, n, FALSE) }
                  ELSE {} }
           \cup { LET sels == SelectionLists(plain, specials, k, FALSE)
                      rests == DocumentsOf(plain, specials, m - 1, n - k, special)
                  IN { <<OperationDefinition(s)>> \o rest : s \in sels, rest \in rests }
                  : k \in 1..n }
           \cup { IF special
                  THEN LET sels == SelectionLists(plain, specials, k, TRUE)
                           rests == DocumentsOf(plain, specials, m - 1, n - k, FALSE)
                       IN { <<OperationDefinition(s)>> \o rest : s \in sels, rest \in rests }
                  ELSE {}
                  : k \in 1..n } )

(* The parsed documents of at most MaxDefs definitions and n field nodes; *)
(* a parsed document has at least one definition.                         *)
Documents(n) ==
    UNION { DocumentsOf(PlainHeads, SpecialHeads, MaxDefs, k, special)
              : k \in 0..n, special \in BOOLEAN } \ { <<>> }

(* The single-operation documents a session enters into the text area. *)
SessionDocuments(n) ==
    UNION { DocumentsOf(SessionHeads, {}, 1, k, FALSE) : k \in 1..n }

(***************************************************************************)
(* The program: main, lines 42-110.  The text area holds the query; the    *)
(* Calculate button runs calculate_cost on it inside try/except and shows  *)
(* either the report or the error.                                         *)
(***************************************************************************)
NoResult == [raised |-> NoError, returned |-> <<>>]

Init ==
    /\ document \in Documents(MaxNodes)
    /\ pc = "input"
    /\ result = NoResult
    /\ all_fields = <<>>
    /\ calls = 0
    /\ earlier = {}

InitSession ==
    /\ document \in SessionDocuments(SessionMaxNodes)
    /\ pc = "input"
    /\ result = NoResult
    /\ all_fields = <<>>
    /\ calls = 0
    /\ earlier = {}

RECURSIVE DecimalText(_)
(* The decimal digits of a natural number, most significant first. *)
DecimalText(n) ==
    IF n < 10 THEN <<48 + n>>
    ELSE Append(DecimalText(n \div 10), 48 + (n % 10))

(* The text of an int whose digits are given; more than 4300 digits raise. *)
FormatInt(digits, negative) ==
    IF Len(digits) > 4300
    THEN [raised |-> "ValueError", val |-> <<>>]
    ELSE [raised |-> NoError,
          val |-> IF negative THEN <<45>> \o digits ELSE digits]

(* str(n) and f"{n}" of an int, lines 65, 87, 88 and 100-103. *)
str(n) == FormatInt(DecimalText(IF n < 0 THEN 0 - n ELSE n), n < 0)

RECURSIVE format_limits(_, _, _)
(***************************************************************************)
(* The loop of lines 85-89 from entry i on: each limit is formatted and    *)
(* added to sum_of_credits; an exception of the formatting ends the loop.  *)
(***************************************************************************)
format_limits(fields_with_limits, i, sum_of_credits) ==
    IF i > Len(fields_with_limits)
    THEN [raised |-> NoError, sum_of_credits |-> sum_of_credits]
    ELSE IF str(fields_with_limits[i][2]).raised # NoError
    THEN [raised |-> str(fields_with_limits[i][2]).raised,
          sum_of_credits |-> sum_of_credits]
    ELSE format_limits(fields_with_limits, i + 1,
                       sum_of_credits + fields_with_limits[i][2])

(* Lines 100-103: the count of fields, the sum and the total are formatted. *)
format_totals(report, sum_of_credits) ==
    IF str(Len(report.fields)).raised # NoError
    THEN str(Len(report.fields)).raised
    ELSE IF str(sum_of_credits).raised # NoError
    THEN str(sum_of_credits).raised
    ELSE str(report.total_cost).raised

(***************************************************************************)
(* The display of the returned tuple, lines 63-104, inside the try of line *)
(* 59: the exception that leaves it, or NoError.  The total is formatted   *)
(* at line 65, the limits at lines 85-89, the totals at lines 100-103.     *)
(***************************************************************************)
display(report) ==
    IF str(report.total_cost).raised # NoError
    THEN str(report.total_cost).raised
    ELSE IF format_limits(report.fields_with_limits, 1, 0).raised # NoError
    THEN format_limits(report.fields_with_limits, 1, 0).raised
    ELSE format_totals(report,
                       format_limits(report.fields_with_limits, 1, 0).sum_of_credits)

(* What the try of lines 59-104 ends with, given what calculate_cost did. *)
try(r) ==
    [raised |-> IF r.raised = NoError THEN display(r.returned[1]) ELSE r.raised,
     returned |-> r.returned]

(***************************************************************************)
(* The button handler, lines 58-110: calculate_cost and the display run in *)
(* one try; an exception of either ends in st.error.  The result is the    *)
(* exception the try caught (or NoError) and what calculate_cost returned. *)
(***************************************************************************)
Handler ==
    /\ LET r == calculate_cost(document)
           caught == try(r)
       IN /\ result' = caught
          /\ all_fields' = r.all_fields
          /\ pc' = IF caught.raised = NoError THEN "report" ELSE "error"
    /\ calls' = calls + 1
    /\ UNCHANGED document

(* The button is pressed on a query that was not estimated yet. *)
Calculate ==
    /\ pc = "input"
    /\ Handler
    /\ UNCHANGED earlier

(* The button is pressed again on the query whose outcome is shown. *)
Recalculate ==
    /\ pc # "input"
    /\ calls < MaxCalls
    /\ Handler
    /\ earlier' = earlier \cup {pc}

(* The user replaces the text of the query, line 45. *)
EnterQuery ==
    /\ pc # "input"
    /\ calls < MaxCalls
    /\ \E d \in SessionDocuments(SessionMaxNodes) :
         /\ d # document
         /\ document' = d
    /\ earlier' = earlier \cup {pc}
    /\ pc' = "input"
    /\ result' = NoResult
    /\ UNCHANGED <<all_fields, calls>>

Next == Calculate

NextSession == Calculate \/ Recalculate \/ EnterQuery

Spec == Init /\ [][Next]_vars

SpecSession == InitSession /\ [][NextSession]_vars

TypeOK ==
    /\ pc \in {"input", "report", "error"}
    /\ calls \in 0..MaxCalls
    /\ Len(result.returned) <= 1
    /\ (pc = "report") <=> (result.raised = NoError /\ Len(result.returned) = 1)
    /\ (pc = "error") <=> (result.raised # NoError)

(***************************************************************************)
(* Vocabulary of the properties.  A field of the document is named by its  *)
(* position: the index of its definition followed by the index of the      *)
(* selection at each level; the leaves in depth-first, left-to-right order *)
(* are the leaf positions in lexicographic order.                          *)
(***************************************************************************)
SelectionsOf(node) ==
    IF "selection_set" \in DOMAIN node THEN node.selection_set ELSE <<>>

RECURSIVE PositionsUnder(_, _)
PositionsUnder(node, pos) ==
    UNION { { Append(pos, i) } \cup PositionsUnder(SelectionsOf(node)[i], Append(pos, i))
              : i \in 1..Len(SelectionsOf(node)) }

Positions(doc) == UNION { PositionsUnder(doc[d], <<d>>) : d \in 1..Len(doc) }

RECURSIVE NodeAt(_, _, _)
NodeAt(node, pos, k) ==
    IF k > Len(pos) THEN node ELSE NodeAt(SelectionsOf(node)[pos[k]], pos, k + 1)

FieldAt(doc, pos) == NodeAt(doc[pos[1]], pos, 2)

LeafPositions(doc) == { p \in Positions(doc) : SelectionsOf(FieldAt(doc, p)) = <<>> }

(* p comes before q in depth-first, left-to-right order. *)
Before(p, q) ==
    \E k \in 1..Len(p) :
        /\ k <= Len(q)
        /\ \A j \in 1..(k - 1) : p[j] = q[j]
        /\ p[k] < q[k]

(* The place of leaf p among the leaves of the document, from 1. *)
Rank(doc, p) == 1 + Cardinality({ q \in LeafPositions(doc) : Before(q, p) })

(* The ancestor fields of p, from the operation root down to its parent. *)
Ancestors(p) == { SubSeq(p, 1, k) : k \in 2..(Len(p) - 1) }

(* The names from the outermost ancestor of p down to p. *)
NamePath(doc, p) == [k \in 1..(Len(p) - 1) |-> FieldAt(doc, SubSeq(p, 1, k + 1)).name]

RECURSIVE Dotted(_)
Dotted(names) ==
    IF Len(names) = 0 THEN ""
    ELSE IF Len(names) = 1 THEN names[1]
    ELSE Dotted(SubSeq(names, 1, Len(names) - 1)) \o "." \o names[Len(names)]

IsLimit(argument) == argument.name = "limit"

LimitArguments(field) == SelectSeq(field.arguments, IsLimit)

(***************************************************************************)
(* The integer a literal text denotes, for the texts that denote one: the  *)
(* digits may be surrounded by spaces, separated by an underscore, or the  *)
(* digits of another script (1635 is ARABIC-INDIC DIGIT THREE).            *)
(***************************************************************************)
Denotes(text) ==
    CASE text = Text(<<"0">>) -> 0
      [] text = Text(<<"2">>) -> 2
      [] text = Text(<<"3">>) -> 3
      [] text = Text(<<"5">>) -> 5
      [] text = Text(<<"7">>) -> 7
      [] text = Text(<<"-", "3">>) -> 0 - 3
      [] text = Text(<<" ", "5", " ">>) -> 5
      [] text = Text(<<"1", "_", "0">>) -> 10
      [] text = <<1635>> -> 3

DenotesInteger(text) ==
    text \in { Text(<<"0">>), Text(<<"2">>), Text(<<"3">>), Text(<<"5">>),
               Text(<<"7">>), Text(<<"-", "3">>), Text(<<" ", "5", " ">>),
               Text(<<"1", "_", "0">>), <<1635>> }

(* The value node carries a text: it is no bool and no null. *)
HasText(value) ==
    value.kind \in {"IntValue", "FloatValue", "StringValue", "EnumValue"}

(* The integer a value node stands for: a bool stands for 0 or 1. *)
ValueOf(value) ==
    IF value.kind = "BooleanValue" THEN (IF value.value THEN 1 ELSE 0)
    ELSE Denotes(value.value)

(* The field has no limit argument, or one limit argument, an integer literal. *)
PlainLimit(field) ==
    /\ Len(LimitArguments(field)) <= 1
    /\ \A i \in 1..Len(LimitArguments(field)) :
          LimitArguments(field)[i].value.kind = "IntValue"

(* The factor of a field: the value of its last limit argument, 1 without one. *)
Factor(field) ==
    IF LimitArguments(field) = <<>> THEN 1
    ELSE ValueOf(LimitArguments(field)[Len(LimitArguments(field))].value)

RECURSIVE Product(_, _, _)
(* The product of the factors of the fields pos[1..k], k from 2 to upto. *)
Product(doc, pos, upto) ==
    IF upto < 2 THEN 1
    ELSE Factor(FieldAt(doc, SubSeq(pos, 1, upto))) * Product(doc, pos, upto - 1)

(* The product of the factors of the ancestors of p. *)
AncestorProduct(doc, p) == Product(doc, p, Len(p) - 1)

RECURSIVE SumOfLimits(_, _)
SumOfLimits(entries, n) ==
    IF n = 0 THEN 0 ELSE entries[n][2] + SumOfLimits(entries, n - 1)

(* calculate_cost returned its tuple in the last press of the button. *)
Reported == pc # "input" /\ Len(result.returned) = 1

Report == result.returned[1]

Entries == Report.fields_with_limits

(* The entry recorded for leaf p exists and has limit n. *)
EntryLimitIs(p, n) ==
    /\ Rank(document, p) <= Len(Entries)
    /\ Entries[Rank(document, p)][2] = n

(***************************************************************************)
(* Properties.                                                             *)
(***************************************************************************)

(* C1: whenever calculate_cost returns, the total cost is the sum of the   *)
(* limits of the returned entries plus the number of entries; a document   *)
(* without leaf fields has total cost 0.                                   *)
TotalIsSumPlusCount ==
    Reported =>
        /\ Report.total_cost = SumOfLimits(Entries, Len(Entries)) + Len(Entries)
        /\ (LeafPositions(document) = {} => Report.total_cost = 0)

TotalIsSumPlusCountWitness ==
    /\ Reported
    /\ Len(Entries) >= 2
    /\ Entries[1][2] # Entries[2][2]
    /\ Report.total_cost > Len(Entries)

(* C2: a leaf without a limit argument of its own, at any depth, is        *)
(* recorded with the product of the limit arguments of its ancestors (1    *)
(* for an ancestor without a limit), each ancestor carrying at most one    *)
(* limit argument, an integer literal.                                     *)
NestedLimitsMultiply ==
    Reported =>
        \A p \in LeafPositions(document) :
            ( /\ LimitArguments(FieldAt(document, p)) = <<>>
              /\ \A q \in Ancestors(p) : PlainLimit(FieldAt(document, q)) )
            => EntryLimitIs(p, AncestorProduct(document, p))

NestedLimitsMultiplyWitness ==
    /\ Reported
    /\ \E p \in LeafPositions(document) :
          /\ Len(p) = 4
          /\ LimitArguments(FieldAt(document, p)) = <<>>
          /\ \A q \in Ancestors(p) : PlainLimit(FieldAt(document, q))
          /\ Factor(FieldAt(document, SubSeq(p, 1, 2))) = 2
          /\ Factor(FieldAt(document, SubSeq(p, 1, 3))) = 3
          /\ EntryLimitIs(p, 6)

(* C3 as stated: a leaf with one integer limit argument L reached with     *)
(* inherited multiplier M is recorded with M * L.                          *)
LeafLimitFolded ==
    Reported =>
        \A p \in LeafPositions(document) :
            ( /\ Len(LimitArguments(FieldAt(document, p))) = 1
              /\ PlainLimit(FieldAt(document, p))
              /\ DenotesInteger(LimitArguments(FieldAt(document, p))[1].value.value)
              /\ \A q \in Ancestors(p) : PlainLimit(FieldAt(document, q)) )
            => EntryLimitIs(p, AncestorProduct(document, p) * Factor(FieldAt(document, p)))

(* C4: the returned field paths are the dot-joined name paths of the leaf  *)
(* fields in depth-first, left-to-right order, one per leaf occurrence,    *)
(* none for a field with a selection set, and the i-th field path is the   *)
(* path of the i-th entry.                                                 *)
FieldPathsInOrder ==
    Reported =>
        /\ Len(Report.fields) = Cardinality(LeafPositions(document))
        /\ Len(Entries) = Len(Report.fields)
        /\ \A p \in LeafPositions(document) :
              /\ Rank(document, p) <= Len(Report.fields)
              /\ Report.fields[Rank(document, p)] = Dotted(NamePath(document, p))
        /\ \A i \in 1..Len(Entries) : Report.fields[i] = Entries[i][1]

FieldPathsInOrderWitness ==
    /\ Reported
    /\ Len(Report.fields) = 2
    /\ Report.fields[1] = "b.a"
    /\ Report.fields[2] = "a"
    /\ Cardinality(Positions(document)) = 3

RECURSIVE PerDefinition(_, _)
(* The entry lists of the first d definitions of doc, each walked as a     *)
(* document of its own, one after the other.                               *)
PerDefinition(doc, d) ==
    IF d = 0 THEN <<>>
    ELSE PerDefinition(doc, d - 1) \o extract_fields_and_limit(<<doc[d]>>).all_fields

(* C5: every definition is walked from multiplier 1 and the empty path,    *)
(* unaffected by the earlier definitions, and the entries are the          *)
(* per-definition entry lists in document order.                           *)
DefinitionsIndependent ==
    Reported =>
        /\ Entries = PerDefinition(document, Len(document))
        /\ \A p \in LeafPositions(document) :
              Len(p) = 2 =>
                 /\ EntryLimitIs(p, 1)
                 /\ Entries[Rank(document, p)][1] = FieldAt(document, p).name

DefinitionsIndependentWitness ==
    /\ Reported
    /\ Len(document) = 2
    /\ Len(Entries) = 2
    /\ Entries[1] = <<"a.a", 2>>
    /\ Entries[2] = <<"a", 1>>

(* C10: with several limit arguments on one field, its descendants get the *)
(* inherited multiplier times the value of the last one only.              *)
LastLimitWins ==
    Reported =>
        \A p \in LeafPositions(document) :
            ( /\ \E q \in Ancestors(p) : Len(LimitArguments(FieldAt(document, q))) > 1
              /\ \A q \in Ancestors(p) :
                    \A i \in 1..Len(LimitArguments(FieldAt(document, q))) :
                        LimitArguments(FieldAt(document, q))[i].value.kind = "IntValue" )
            => EntryLimitIs(p, AncestorProduct(document, p))

LastLimitWinsWitness ==
    /\ Reported
    /\ \E p \in LeafPositions(document) :
          /\ Len(p) = 4
          /\ Factor(FieldAt(document, SubSeq(p, 1, 2))) = 2
          /\ Len(LimitArguments(FieldAt(document, SubSeq(p, 1, 3)))) = 2
          /\ LimitArguments(FieldAt(document, SubSeq(p, 1, 3)))[1].value.value = Text(<<"2">>)
          /\ LimitArguments(FieldAt(document, SubSeq(p, 1, 3)))[2].value.value = Text(<<"3">>)
          /\ EntryLimitIs(p, 6)

(* A limit argument with a text that does not denote a non-negative integer. *)
Offending(argument) ==
    /\ IsLimit(argument)
    /\ HasText(argument.value)
    /\ ~(DenotesInteger(argument.value.value) /\ Denotes(argument.value.value) >= 0)

(* C6 as stated: when any field carries a limit argument that cannot be    *)
(* read as a non-negative integer, the call ends in an error and returns   *)
(* nothing.                                                                *)
BadLimitEndsInError ==
    ( /\ pc # "input"
      /\ \E p \in Positions(document) :
            \E i \in 1..Len(FieldAt(document, p).arguments) :
                Offending(FieldAt(document, p).arguments[i]) )
    => (pc = "error" /\ result.returned = <<>>)

(* The field has no limit argument, or only string literals of digits. *)
NoIntegerLimit(field) ==
    \A i \in 1..Len(LimitArguments(field)) :
        /\ LimitArguments(field)[i].value.kind = "StringValue"
        /\ DenotesInteger(LimitArguments(field)[i].value.value)

(* C7 as stated, for a missing limit and for a string of digits: a field   *)
(* whose limit is missing or is not an integer literal passes the          *)
(* inherited multiplier on to its leaf children (every other field of the  *)
(* document carrying at most one limit, an integer literal).               *)
NonIntegerLimitIsOne ==
    pc # "input" =>
        \A p \in LeafPositions(document) :
            ( /\ Len(p) >= 3
              /\ NoIntegerLimit(FieldAt(document, SubSeq(p, 1, Len(p) - 1)))
              /\ \A q \in Positions(document) \ { SubSeq(p, 1, Len(p) - 1) } :
                    PlainLimit(FieldAt(document, q)) )
            => ( /\ Reported
                 /\ EntryLimitIs(p, Product(document, p, Len(p) - 2)) )

(* The value node is an Int literal without a sign: digits only. *)
NonNegativeIntLiteral(value) ==
    /\ value.kind = "IntValue"
    /\ value.value # <<>>
    /\ \A k \in 1..Len(value.value) : value.value[k] \in 48..57

(* Every limit argument of the document is a non-negative integer literal. *)
LimitsNonNegativeIntegers(doc) ==
    \A p \in Positions(doc) :
        \A i \in 1..Len(LimitArguments(FieldAt(doc, p))) :
            NonNegativeIntLiteral(LimitArguments(FieldAt(doc, p))[i].value)

(* Some limit argument of the field is the literal 0. *)
HasZeroLimit(field) ==
    \E i \in 1..Len(LimitArguments(field)) :
        LimitArguments(field)[i].value.value = Text(<<"0">>)

(* C8 as stated: when all limit arguments are non-negative integer         *)
(* literals, every returned entry has a limit of at least 1.               *)
EntriesPositive ==
    (Reported /\ LimitsNonNegativeIntegers(document)) =>
        \A i \in 1..Len(Entries) : Entries[i][2] >= 1

(* C8 amended: when all limit arguments are non-negative integer literals, *)
(* every returned entry has a limit of at least 0, and of at least 1 for a *)
(* leaf none of whose ancestors has a limit 0.                             *)
EntriesNonNegative ==
    (Reported /\ LimitsNonNegativeIntegers(document)) =>
        /\ \A i \in 1..Len(Entries) : Entries[i][2] >= 0
        /\ \A p \in LeafPositions(document) :
              (\A q \in Ancestors(p) : ~HasZeroLimit(FieldAt(document, q)))
              => ( /\ Rank(document, p) <= Len(Entries)
                   /\ Entries[Rank(document, p)][2] >= 1 )

EntriesNonNegativeWitness ==
    /\ Reported
    /\ LimitsNonNegativeIntegers(document)
    /\ Len(Entries) = 2
    /\ Entries[1] = <<"b.a", 0>>
    /\ Entries[2] = <<"a", 1>>

(* The call on doc raises: a field with a selection set carries a limit    *)
(* argument that is null or whose text denotes no integer.                 *)
ExpectedRaise(doc) ==
    \E p \in Positions(doc) \ LeafPositions(doc) :
        \E i \in 1..Len(LimitArguments(FieldAt(doc, p))) :
            \/ LimitArguments(FieldAt(doc, p))[i].value.kind = "NullValue"
            \/ /\ HasText(LimitArguments(FieldAt(doc, p))[i].value)
               /\ ~DenotesInteger(LimitArguments(FieldAt(doc, p))[i].value.value)

(* The leaf of doc at place i in depth-first order. *)
LeafAt(doc, i) == CHOOSE p \in LeafPositions(doc) : Rank(doc, p) = i

ExpectedEntries(doc) ==
    [i \in 1..Cardinality(LeafPositions(doc)) |->
        <<Dotted(NamePath(doc, LeafAt(doc, i))), AncestorProduct(doc, LeafAt(doc, i))>>]

(* What a first call on doc returns, as a function of doc alone. *)
ExpectedReport(doc) ==
    [total_cost |-> SumOfLimits(ExpectedEntries(doc), Len(ExpectedEntries(doc)))
                    + Len(ExpectedEntries(doc)),
     fields |-> [i \in 1..Len(ExpectedEntries(doc)) |-> ExpectedEntries(doc)[i][1]],
     fields_with_limits |-> ExpectedEntries(doc)]

(* C9: after any sequence of earlier calls, a call returns what a first    *)
(* call on the same query returns: the outcome is a function of the query  *)
(* alone, and nothing of an earlier call is kept.                          *)
CallsAreIndependent ==
    pc # "input" =>
        IF ExpectedRaise(document)
        THEN pc = "error" /\ result.returned = <<>>
        ELSE Reported /\ Report = ExpectedReport(document)

CallsAreIndependentWitness ==
    /\ Reported
    /\ calls >= 2
    /\ "error" \in earlier
    /\ all_fields # <<>>
    /\ Report = ExpectedReport(document)
====
